---- MODULE Spec2Model ----
(***************************************************************************)
(* Model of the Autonomy Kernel of smart-data-pipeline: the persistent     *)
(* task queue (orchestration/task_queue.py), the source health tracker     *)
(* (orchestration/health.py), the Doctor healing workflow                  *)
(* (agents/doctor.py) and the Orchestrator loop                            *)
(* (orchestration/orchestrator.py).                                        *)
(*                                                                         *)
(* The SQLite tables are modelled as values: the task table is a sequence  *)
(* of rows indexed by the row id, the source_health table a function from  *)
(* source names to rows.  Every method of the code is an operator that     *)
(* maps a table to the table after the call; the actions apply these       *)
(* operators.  Wall-clock time is the variable now, counted in hours.      *)
(***************************************************************************)
EXTENDS Integers, Sequences, FiniteSets, TLC

\* ------------------------------------------------------------------ bounds
MaxTasks == 3
MaxTime == 36
TickHours == 12
MaxFailures == 3
MaxHeals == 2
MaxBudgetHeals == 4
MaxBudgetCalls == 2
MaxClaims == 3
MaxLoopTasks == 2
MaxLoopFailures == 3
MaxLoopTime == 12

\* ------------------------------------------------------- program constants
MAX_FIX_ATTEMPTS_PER_DAY == 3
QUARANTINE_THRESHOLD == 3
DEFAULT_QUARANTINE_HOURS == 24
STALE_MAX_AGE_HOURS == 24
HOURS_PER_DAY == 24
DEFAULT_PRIORITY == 5
FIX_PRIORITY == 8
REFRESH_PRIORITY == 3
IMMEDIATE_PRIORITY == 10

Sources == {"s1", "s2"}
Workers == {"w1", "w2"}

\* Python None for datetime columns, for text columns and for absent files.
NoTime == -1
NoText == "<None>"
NoFile == "<absent>"
NoTask == 0

TaskTypes == {"ADD_SOURCE", "FIX_SOURCE", "REFRESH_SOURCE"}

VARIABLES
    tasks,        \* task_queue table: sequence of rows, row id = index
    now,          \* wall clock, in hours
    health,       \* source_health table: source name -> row
    prod,         \* src/registry/<source>.py            (NoFile when absent)
    staging,      \* src/registry/staging/<source>.py
    backup,       \* src/registry/<source>.py.bak
    fix_history,  \* fix_history table: sequence of rows
    lessons,      \* number of rows of the lessons table
    wpc,          \* per concurrent caller of get_next_task: its position
    wrec,         \* per caller: the row id its SELECT returned
    returned,     \* per caller: the task ids get_next_task returned to it
    pc,           \* position of the Orchestrator loop
    cur,          \* the task the loop is dispatching (row id, NoTask if none)
    ret,          \* outcome of the last process_task call
    passed,       \* per source and day: heal calls that passed the breaker
    swept,        \* ids of the tasks enqueued by the health sweep
    running,      \* Orchestrator.running
    stop_requested, \* stop() was called on this Orchestrator
    llm,          \* the _openai_chat call in progress: attempts and errors
    log           \* the last operation applied and what it observed

vars == <<tasks, now, health, prod, staging, backup, fix_history, lessons,
          wpc, wrec, returned, pc, cur, ret, passed, swept, running,
          stop_requested, llm, log>>

\* ================================================================ TaskQueue

\* TaskQueue.add_task: a new PENDING row; created_at is the insertion order.
add_task(tq, task_type, target, priority) ==
    Append(tq, [task_type     |-> task_type,
                target        |-> target,
                state         |-> "PENDING",
                priority      |-> priority,
                created_at    |-> Len(tq) + 1,
                started_at    |-> NoTime,
                completed_at  |-> NoTime,
                error_message |-> NoText,
                retry_count   |-> 0])

PendingIds(tq) == {i \in 1..Len(tq) : tq[i].state = "PENDING"}

\* (mutation) ORDER BY created_at ASC only: first in, first out.
SelectNextPending_fifo(tq) ==
    IF PendingIds(tq) = {} THEN NoTask
    ELSE CHOOSE i \in PendingIds(tq) :
            \A j \in PendingIds(tq) : tq[i].created_at <= tq[j].created_at

\* The SELECT of get_next_task: ORDER BY priority DESC, created_at ASC, first().
SelectNextPending(tq) ==
    IF PendingIds(tq) = {} THEN NoTask
    ELSE CHOOSE i \in PendingIds(tq) :
            \A j \in PendingIds(tq) :
                \/ tq[i].priority > tq[j].priority
                \/ /\ tq[i].priority = tq[j].priority
                   /\ tq[i].created_at <= tq[j].created_at

\* The UPDATE of get_next_task: the ORM flushes
\* UPDATE task_queue SET state, started_at WHERE id = :id (no test of the state).
MarkInProgress(tq, id, t) ==
    [tq EXCEPT ![id] = [@ EXCEPT !.state = "IN_PROGRESS", !.started_at = t]]

\* TaskQueue.get_next_task run without interruption.
get_next_task(tq, t) ==
    IF SelectNextPending(tq) = NoTask THEN tq
    ELSE MarkInProgress(tq, SelectNextPending(tq), t)

\* TaskQueue.update_state.  `if error:` is false for None and for "".
update_state(tq, id, state, error, t) ==
    IF id \notin 1..Len(tq) THEN tq
    ELSE [tq EXCEPT ![id] =
            [@ EXCEPT !.state = state,
                      !.error_message =
                          IF error # NoText /\ error # "" THEN error ELSE @,
                      !.completed_at =
                          IF state \in {"COMPLETED", "FAILED"} THEN t ELSE @,
                      !.retry_count =
                          IF state = "FAILED" THEN @ + 1 ELSE @]]

InProgressIds(tq) == {i \in 1..Len(tq) : tq[i].state = "IN_PROGRESS"}

StaleText == "Stale task (started > 24h ago)"

\* (mutation) the age test reversed: the tasks started after the cutoff match.
cleanup_stale_tasks_young(tq, t, max_age_hours) ==
    [i \in 1..Len(tq) |->
        IF /\ tq[i].state = "IN_PROGRESS"
           /\ tq[i].started_at # NoTime
           /\ tq[i].started_at > t - max_age_hours
        THEN [tq[i] EXCEPT !.state = "FAILED",
                           !.error_message = StaleText,
                           !.completed_at = t]
        ELSE tq[i]]

\* TaskQueue.cleanup_stale_tasks: started_at < now - max_age (NULL never matches).
cleanup_stale_tasks(tq, t, max_age_hours) ==
    [i \in 1..Len(tq) |->
        IF /\ tq[i].state = "IN_PROGRESS"
           /\ tq[i].started_at # NoTime
           /\ tq[i].started_at < t - max_age_hours
        THEN [tq[i] EXCEPT !.state = "FAILED",
                           !.error_message = StaleText,
                           !.completed_at = t]
        ELSE tq[i]]

get_pending_count(tq) == Cardinality(PendingIds(tq))

\* ============================================================ HealthTracker

Day(t) == t \div HOURS_PER_DAY

\* A SourceHealthRecord with the column defaults (state ACTIVE, counters 0).
\* exists = FALSE stands for "no row for this source_name yet".
\* The columns last_success_at and last_failure_at are write-only stamps and
\* are left out; no decision of the code reads them.
DefaultRow ==
    [exists                |-> FALSE,
     state                 |-> "ACTIVE",
     last_error            |-> NoText,
     success_count         |-> 0,
     failure_count         |-> 0,
     consecutive_failures  |-> 0,
     fix_attempts_today    |-> 0,
     fix_attempts_reset_at |-> NoTime,
     quarantine_until      |-> NoTime]

\* HealthTracker._get_or_create_record
get_or_create_record(h, s) ==
    IF h[s].exists THEN h ELSE [h EXCEPT ![s] = [DefaultRow EXCEPT !.exists = TRUE]]

\* (mutation) the counter is reset on every call made later than the last reset.
reset_daily_counters_each_call(row, t) ==
    IF row.fix_attempts_reset_at = NoTime
    THEN [row EXCEPT !.fix_attempts_reset_at = t]
    ELSE IF row.fix_attempts_reset_at < t
         THEN [row EXCEPT !.fix_attempts_today = 0, !.fix_attempts_reset_at = t]
         ELSE row

\* HealthTracker._reset_daily_counters_if_needed, on one row.
reset_daily_counters_if_needed(row, t) ==
    IF row.fix_attempts_reset_at = NoTime
    THEN [row EXCEPT !.fix_attempts_reset_at = t]
    ELSE IF Day(row.fix_attempts_reset_at) < Day(t)
         THEN [row EXCEPT !.fix_attempts_today = 0, !.fix_attempts_reset_at = t]
         ELSE row

\* (mutation) quarantine_until is left as it was.
record_success_keeps_until(h, s, t) ==
    LET h1 == get_or_create_record(h, s)
        r1 == reset_daily_counters_if_needed(h1[s], t)
    IN  [h1 EXCEPT ![s] = [r1 EXCEPT !.success_count = @ + 1,
                                     !.consecutive_failures = 0,
                                     !.state = "ACTIVE"]]

\* HealthTracker.record_success
record_success(h, s, t) ==
    LET h1 == get_or_create_record(h, s)
        r1 == reset_daily_counters_if_needed(h1[s], t)
    IN  [h1 EXCEPT ![s] = [r1 EXCEPT !.success_count = @ + 1,
                                     !.consecutive_failures = 0,
                                     !.state = "ACTIVE",
                                     !.quarantine_until = NoTime]]

\* (mutation) the thresholds compared with > instead of >=.
StrikeState_late(row, t) ==
    IF row.consecutive_failures > QUARANTINE_THRESHOLD
    THEN [row EXCEPT !.state = "QUARANTINED",
                     !.quarantine_until = t + DEFAULT_QUARANTINE_HOURS]
    ELSE IF row.consecutive_failures > 2
         THEN [row EXCEPT !.state = "DEGRADED"]
         ELSE row

\* The 3-strikes rule of record_failure, applied to the incremented count.
StrikeState(row, t) ==
    IF row.consecutive_failures >= QUARANTINE_THRESHOLD
    THEN [row EXCEPT !.state = "QUARANTINED",
                     !.quarantine_until = t + DEFAULT_QUARANTINE_HOURS]
    ELSE IF row.consecutive_failures >= 2
         THEN [row EXCEPT !.state = "DEGRADED"]
         ELSE row

\* HealthTracker.record_failure (error[:1000] if error else None)
record_failure(h, s, error, t) ==
    LET h1 == get_or_create_record(h, s)
        r1 == reset_daily_counters_if_needed(h1[s], t)
        r2 == [r1 EXCEPT !.failure_count = @ + 1,
                         !.consecutive_failures = @ + 1,
                         !.last_error =
                             IF error = NoText \/ error = "" THEN NoText ELSE error]
    IN  [h1 EXCEPT ![s] = StrikeState(r2, t)]

\* HealthTracker.quarantine (manual)
quarantine(h, s, hours, t) ==
    LET h1 == get_or_create_record(h, s)
    IN  [h1 EXCEPT ![s] = [@ EXCEPT !.state = "QUARANTINED",
                                    !.quarantine_until = t + hours]]

NaiveAwareError == "can't compare offset-naive and offset-aware datetimes"

\* (mutation) the stored quarantine_until compares with the aware clock.
is_quarantined_compares(h, s) == FALSE

\* HealthTracker.is_quarantined: `record.quarantine_until < datetime.now(
\* timezone.utc)`.  quarantine_until is a Column(DateTime) of a SQLite table:
\* the row read in the call's own session carries it without tzinfo, and the
\* comparison of a naive with an aware datetime raises TypeError.  The test is
\* reached for a QUARANTINED row whose quarantine_until is not NULL.
is_quarantined_raises(h, s) ==
    /\ h[s].exists
    /\ h[s].state = "QUARANTINED"
    /\ h[s].quarantine_until # NoTime

\* HealthTracker.is_quarantined, when the comparison returns: the value ...
is_quarantined(h, s, t) ==
    /\ h[s].exists
    /\ h[s].state = "QUARANTINED"
    /\ ~(h[s].quarantine_until # NoTime /\ h[s].quarantine_until < t)

\* ... and the table it leaves (lazy release of an expired quarantine).
is_quarantined_store(h, s, t) ==
    IF /\ h[s].exists
       /\ h[s].state = "QUARANTINED"
       /\ h[s].quarantine_until # NoTime
       /\ h[s].quarantine_until < t
    THEN [h EXCEPT ![s] = [@ EXCEPT !.state = "DEGRADED",
                                    !.quarantine_until = NoTime]]
    ELSE h

\* HealthTracker.get_degraded_sources
get_degraded_sources(h) ==
    {s \in Sources : h[s].exists /\ h[s].state \in {"DEGRADED", "QUARANTINED"}}

\* HealthTracker.can_attempt_fix: the table it leaves ...
can_attempt_fix_store(h, s, t) ==
    LET h1 == get_or_create_record(h, s)
    IN  [h1 EXCEPT ![s] = reset_daily_counters_if_needed(@, t)]

\* (mutation) the limit compared with <= instead of <.
can_attempt_fix_inclusive(h, s, t) ==
    can_attempt_fix_store(h, s, t)[s].fix_attempts_today <= MAX_FIX_ATTEMPTS_PER_DAY

\* ... and the value returned.
can_attempt_fix(h, s, t) ==
    can_attempt_fix_store(h, s, t)[s].fix_attempts_today < MAX_FIX_ATTEMPTS_PER_DAY

\* (mutation) the incremented counter is not committed.
record_fix_attempt_unsaved(h, s, t) ==
    LET h1 == get_or_create_record(h, s)
    IN  [h1 EXCEPT ![s] = reset_daily_counters_if_needed(h1[s], t)]

\* HealthTracker.record_fix_attempt
record_fix_attempt(h, s, t) ==
    LET h1 == get_or_create_record(h, s)
        r1 == reset_daily_counters_if_needed(h1[s], t)
    IN  [h1 EXCEPT ![s] = [r1 EXCEPT !.fix_attempts_today = @ + 1]]

\* HealthTracker.mark_dead
mark_dead(h, s) ==
    LET h1 == get_or_create_record(h, s)
    IN  [h1 EXCEPT ![s] = [@ EXCEPT !.state = "DEAD"]]

\* ============================================================== DoctorAgent

\* File contents.  OriginalCode is the scraper a Builder wrote; the Generator
\* returns one of Patches, told apart by what the validation steps see.
OriginalCode == "original"
Patches == {"syntax_error", "compile_error", "no_class", "patched"}
Contents == {NoFile, OriginalCode} \cup Patches

ast_parse_ok(code) == code # "syntax_error"
compile_ok(code) == code \notin {"syntax_error", "compile_error"}
has_class(code) == code \in {OriginalCode, "patched"}

\* Confidence in percent; the abort threshold of heal is 0.3.
CONFIDENCE_THRESHOLD == 30
DEFAULT_CONFIDENCE == 50
Confidences == {0, 10, 30, 95}

\* What the external collaborators do during one heal call.
\*   collect : "ok" | "raise"        a lookup or file read of collect_context raises
\*   oracle  : "ok" | "raise" | "badjson" | "noconf"   the diagnosis response
\*   confidence : the confidence field of an "ok" response
\*   patch   : "raise" or the text the Generator returns
\*   stage_ok: the write of the staging file succeeds
\*   promote : "ok" | "copy_fails" | "move_fails"
\*   learn_ok : the Oracle call and INSERT of learn_from_success succeed
AllExternals ==
    [collect : {"ok", "raise"},
     oracle : {"ok", "raise", "badjson", "noconf"},
     confidence : Confidences,
     patch : {"raise"} \cup Patches,
     stage_ok : BOOLEAN,
     promote : {"ok", "copy_fails", "move_fails"},
     learn_ok : BOOLEAN]

\* A collaborator that heal never reaches has nothing to decide: every
\* behaviour of the collaborators is one of these, in which the ones behind the
\* first failing stage are left at their nominal answer.
ReachesDiagnose(x) == x.collect = "ok"
ReachesPatch(x) ==
    /\ ReachesDiagnose(x)
    /\ \/ x.oracle = "noconf"
       \/ x.oracle = "ok" /\ x.confidence >= CONFIDENCE_THRESHOLD
ReachesStage(x) ==
    /\ ReachesPatch(x)
    /\ x.patch \in {"compile_error", "no_class", "patched"}
ReachesPromote(x) == ReachesStage(x) /\ x.stage_ok
ReachesLearn(x) == ReachesPromote(x) /\ x.promote = "ok"

Externals ==
    {x \in AllExternals :
        /\ ReachesDiagnose(x) \/ x.oracle = "ok"
        /\ x.oracle = "ok" \/ x.confidence = 95
        /\ ReachesPatch(x) \/ x.patch = "patched"
        /\ ReachesStage(x) \/ x.stage_ok
        /\ ReachesPromote(x) \/ x.promote = "ok"
        /\ ReachesLearn(x) \/ x.learn_ok}

\* (mutation) a failed Oracle call answered with the default confidence.
diagnose_default_on_failure(x) ==
    CASE x.oracle = "ok" -> x.confidence
      [] OTHER -> DEFAULT_CONFIDENCE

\* DoctorAgent.diagnose: the confidence of the Diagnosis it returns.
diagnose(x) ==
    CASE x.oracle = "ok" -> x.confidence
      [] x.oracle = "noconf" -> DEFAULT_CONFIDENCE
      [] OTHER -> 0

\* DoctorAgent.generate_patch: the patch, or NoText for None.
generate_patch(current_code, x) ==
    IF current_code = NoFile THEN NoText
    ELSE IF x.patch = "raise" THEN NoText
    ELSE IF ~ast_parse_ok(x.patch) THEN NoText
    ELSE x.patch

\* (mutation) the structural check for a class definition is missing.
validate_staged_no_class_check(staged) ==
    /\ staged # NoFile
    /\ ast_parse_ok(staged)
    /\ compile_ok(staged)

\* DoctorAgent.validate_staged
validate_staged(staged) ==
    /\ staged # NoFile
    /\ ast_parse_ok(staged)
    /\ compile_ok(staged)
    /\ has_class(staged)

\* (mutation) the production file is not copied to .py.bak before the move.
promote_to_production_no_backup(p, st, b, x) ==
    IF st = NoFile THEN [ok |-> FALSE, prod |-> p, staging |-> st, backup |-> b]
    ELSE IF x.promote = "ok"
         THEN [ok |-> TRUE, prod |-> st, staging |-> NoFile, backup |-> b]
         ELSE [ok |-> FALSE, prod |-> p, staging |-> st, backup |-> b]

\* (mutation) the backup is taken after the move, so it holds the new code,
\* and a failed move leaves no backup behind.
promote_to_production_backup_late(p, st, b, x) ==
    IF st = NoFile THEN [ok |-> FALSE, prod |-> p, staging |-> st, backup |-> b]
    ELSE IF p # NoFile /\ x.promote = "copy_fails"
         THEN [ok |-> FALSE, prod |-> p, staging |-> st, backup |-> b]
    ELSE IF x.promote = "move_fails"
         THEN [ok |-> FALSE, prod |-> p, staging |-> st, backup |-> b]
    ELSE [ok |-> TRUE, prod |-> st, staging |-> NoFile, backup |-> st]

\* DoctorAgent.promote_to_production on the files of one source:
\* [ok, prod, staging, backup] after the call.
promote_to_production(p, st, b, x) ==
    IF st = NoFile THEN [ok |-> FALSE, prod |-> p, staging |-> st, backup |-> b]
    ELSE IF p # NoFile /\ x.promote = "copy_fails"
         THEN [ok |-> FALSE, prod |-> p, staging |-> st, backup |-> b]
    ELSE IF x.promote = "move_fails"
         THEN [ok |-> FALSE, prod |-> p, staging |-> st,
               backup |-> IF p # NoFile THEN p ELSE b]
    ELSE [ok |-> TRUE, prod |-> st, staging |-> NoFile,
          backup |-> IF p # NoFile THEN p ELSE b]

\* DoctorAgent.rollback on the files of one source.
rollback(p, b) ==
    IF b = NoFile THEN [ok |-> FALSE, prod |-> p, backup |-> b]
    ELSE [ok |-> TRUE, prod |-> b, backup |-> NoFile]

\* (mutation) the success flag is not passed on: every record says success.
record_fix_history_success(fh, s, success, patch) ==
    Append(fh, [source_name |-> s, success |-> TRUE, patch_applied |-> patch])

\* DoctorAgent._record_fix_history: the fix_history table after the call.
record_fix_history(fh, s, success, patch) ==
    Append(fh, [source_name |-> s, success |-> success, patch_applied |-> patch])

\* (mutation) a default lesson is saved when the Oracle's answer is unusable.
learn_from_success_default(n, x) == n + 1

\* (mutation) the lesson is built but never added to the session.
learn_from_success_unsaved(n, x) == n

\* DoctorAgent.learn_from_success: the number of Lesson rows after the call.
learn_from_success(n, x) == IF x.learn_ok THEN n + 1 ELSE n

\* The part of the world heal works on.
World(h, p, st, b, fh, ls) ==
    [health |-> h, prod |-> p, staging |-> st, backup |-> b,
     fix_history |-> fh, lessons |-> ls]

\* How a heal call ends: the world it leaves, its return value, whether it
\* passed the circuit breaker, the last stage it ran and whether validate_staged
\* passed.  A stage that raises ends in the except clause of heal, which
\* returns False.
Outcome(w, result, entered, stage, validated) ==
    [w |-> w, result |-> result, entered |-> entered, stage |-> stage,
     validated |-> validated]

\* (mutation) a promoted patch is followed by record_success: the repaired
\* source goes back to ACTIVE.
pipeline_records_success(w, s, x) ==
    LET confidence == diagnose(x)
        patch == generate_patch(w.prod[s], x)
        staged == [w EXCEPT !.staging[s] = patch]
        valid == validate_staged(staged.staging[s])
        files == promote_to_production(staged.prod[s], staged.staging[s],
                                       staged.backup[s], x)
        promoted == [staged EXCEPT !.prod[s] = files.prod,
                                   !.staging[s] = files.staging,
                                   !.backup[s] = files.backup]
        Abort(v, stage, val) ==
            Outcome([v EXCEPT !.fix_history =
                        record_fix_history(@, s, FALSE, NoText)],
                    FALSE, TRUE, stage, val)
    IN  IF x.collect = "raise" THEN Outcome(w, FALSE, TRUE, "exception", FALSE)
        ELSE IF confidence < CONFIDENCE_THRESHOLD THEN Abort(w, "diagnose", FALSE)
        ELSE IF patch = NoText THEN Abort(w, "patch", FALSE)
        ELSE IF ~x.stage_ok THEN Abort(w, "stage", FALSE)
        ELSE IF ~valid THEN Abort(staged, "validate", FALSE)
        ELSE IF ~files.ok THEN Abort(promoted, "promote", TRUE)
        ELSE Outcome([promoted EXCEPT
                        !.fix_history = record_fix_history(@, s, TRUE, patch),
                        !.lessons = learn_from_success(@, x),
                        !.health = record_success(@, s, 0)],
                     TRUE, TRUE, "done", TRUE)

\* DoctorAgent.heal, lines 483-529: the stages after the budget slot is taken.
pipeline(w, s, x) ==
    LET confidence == diagnose(x)
        patch == generate_patch(w.prod[s], x)
        staged == [w EXCEPT !.staging[s] = patch]
        valid == validate_staged(staged.staging[s])
        files == promote_to_production(staged.prod[s], staged.staging[s],
                                       staged.backup[s], x)
        promoted == [staged EXCEPT !.prod[s] = files.prod,
                                   !.staging[s] = files.staging,
                                   !.backup[s] = files.backup]
        Abort(v, stage, val) ==
            Outcome([v EXCEPT !.fix_history =
                        record_fix_history(@, s, FALSE, NoText)],
                    FALSE, TRUE, stage, val)
    IN  IF x.collect = "raise" THEN Outcome(w, FALSE, TRUE, "exception", FALSE)
        ELSE IF confidence < CONFIDENCE_THRESHOLD THEN Abort(w, "diagnose", FALSE)
        ELSE IF patch = NoText THEN Abort(w, "patch", FALSE)
        ELSE IF ~x.stage_ok THEN Abort(w, "stage", FALSE)
        ELSE IF ~valid THEN Abort(staged, "validate", FALSE)
        ELSE IF ~files.ok THEN Abort(promoted, "promote", TRUE)
        ELSE Outcome([promoted EXCEPT
                        !.fix_history = record_fix_history(@, s, TRUE, patch),
                        !.lessons = learn_from_success(@, x)],
                     TRUE, TRUE, "done", TRUE)

\* (mutation) the attempt is recorded before the circuit breaker is tested.
heal_attempt_first(w, s, x, t) ==
    IF ~can_attempt_fix(w.health, s, t)
    THEN Outcome([w EXCEPT !.health = record_fix_attempt(@, s, t)],
                 FALSE, FALSE, "refused", FALSE)
    ELSE pipeline([w EXCEPT !.health =
                      record_fix_attempt(can_attempt_fix_store(@, s, t), s, t)],
                  s, x)

\* DoctorAgent.heal
heal(w, s, x, t) ==
    IF ~can_attempt_fix(w.health, s, t)
    THEN Outcome([w EXCEPT !.health = can_attempt_fix_store(@, s, t)],
                 FALSE, FALSE, "refused", FALSE)
    ELSE pipeline([w EXCEPT !.health =
                      record_fix_attempt(can_attempt_fix_store(@, s, t), s, t)],
                  s, x)

\* ==================================================================== state

ErrorTexts == {"", "boom"}
Days == 0..Day(MaxTime)

\* What the last operation was and what it saw: the operation, its source or
\* worker, the health row and the files before it, and how a heal call ended.
NoExternals ==
    [collect |-> "none", oracle |-> "none", confidence |-> 0, patch |-> "none",
     stage_ok |-> FALSE, promote |-> "none", learn_ok |-> FALSE]

NoLog ==
    [op |-> "none", source |-> "none", pre |-> DefaultRow, result |-> FALSE,
     entered |-> FALSE, stage |-> "none", validated |-> FALSE,
     prod_before |-> [s \in Sources |-> NoFile],
     staging_before |-> [s \in Sources |-> NoFile], history_before |-> 0,
     lessons_before |-> 0, task |-> NoTask, text |-> NoText,
     count |-> 0, input |-> "none", ext |-> NoExternals]

Log(op, s) == [NoLog EXCEPT !.op = op, !.source = s, !.pre = health[s]]

\* No _openai_chat call is in progress.
NoCall == [status |-> "idle", calls |-> 0, errors |-> <<>>]

InitRest ==
    /\ tasks = <<>>
    /\ now = 0
    /\ staging = [s \in Sources |-> NoFile]
    /\ backup = [s \in Sources |-> NoFile]
    /\ fix_history = <<>>
    /\ lessons = 0
    /\ wpc = [w \in Workers |-> "idle"]
    /\ wrec = [w \in Workers |-> NoTask]
    /\ returned = [w \in Workers |-> <<>>]
    /\ pc = "init"
    /\ cur = NoTask
    /\ ret = "none"
    /\ passed = [s \in Sources |-> [d \in Days |-> 0]]
    /\ swept = {}
    /\ running = FALSE
    /\ stop_requested = FALSE
    /\ llm = NoCall
    /\ log = NoLog

InitStore ==
    /\ InitRest
    /\ health = [s \in Sources |-> DefaultRow]

Init ==
    /\ InitStore
    /\ prod \in [Sources -> {NoFile, OriginalCode}]

\* The clock advances.
Tick ==
    /\ now + TickHours <= MaxTime
    /\ now' = now + TickHours
    /\ log' = [NoLog EXCEPT !.op = "tick"]
    /\ UNCHANGED <<tasks, health, prod, staging, backup, fix_history, lessons,
                   wpc, wrec, returned, llm, pc, cur, ret, passed, swept, running,
                   stop_requested>>

\* The clock advances within the first day.
LoopTick ==
    /\ now < MaxLoopTime
    /\ Tick

\* ================================================= concurrent get_next_task
\* Two callers (two Orchestrator processes on one store) run get_next_task.
\* Each call is two statements on the shared table: the SELECT of the first
\* PENDING row, and the UPDATE ... WHERE id flushed at commit.

Enqueue(task_type, target, priority) ==
    /\ Len(tasks) < MaxTasks
    /\ tasks' = add_task(tasks, task_type, target, priority)
    /\ log' = [NoLog EXCEPT !.op = "add_task", !.task = Len(tasks) + 1]
    /\ UNCHANGED <<now, health, prod, staging, backup, fix_history, lessons,
                   wpc, wrec, returned, llm, pc, cur, ret, passed, swept, running, stop_requested>>

ClaimSelect(w) ==
    /\ wpc[w] = "idle"
    /\ Len(returned[w]) < MaxClaims
    /\ wrec' = [wrec EXCEPT ![w] = SelectNextPending(tasks)]
    /\ wpc' = [wpc EXCEPT ![w] = IF SelectNextPending(tasks) = NoTask
                                 THEN "idle" ELSE "selected"]
    /\ log' = [NoLog EXCEPT !.op = "select", !.source = w,
                            !.task = SelectNextPending(tasks)]
    /\ UNCHANGED <<tasks, now, health, prod, staging, backup, fix_history,
                   lessons, returned, llm, pc, cur, ret, passed, swept, running, stop_requested>>

ClaimUpdate(w) ==
    /\ wpc[w] = "selected"
    /\ tasks' = MarkInProgress(tasks, wrec[w], now)
    /\ returned' = [returned EXCEPT ![w] = Append(@, wrec[w])]
    /\ wpc' = [wpc EXCEPT ![w] = "idle"]
    /\ log' = [NoLog EXCEPT !.op = "update", !.source = w, !.task = wrec[w]]
    /\ UNCHANGED <<now, health, prod, staging, backup, fix_history, lessons,
                   wrec, pc, cur, ret, passed, swept, running, stop_requested,
                   llm>>

EnqueueAny ==
    \E s \in Sources :
        \/ Enqueue("ADD_SOURCE", s, DEFAULT_PRIORITY)
        \/ Enqueue("FIX_SOURCE", s, FIX_PRIORITY)
        \/ Enqueue("REFRESH_SOURCE", s, REFRESH_PRIORITY)

NextQueue ==
    \/ EnqueueAny
    \/ \E w \in Workers : ClaimSelect(w)
    \/ \E w \in Workers : ClaimUpdate(w)
    \/ Tick

InitQueue ==
    /\ InitStore
    /\ prod = [s \in Sources |-> NoFile]

InitBudget ==
    /\ InitStore
    /\ prod = [s \in Sources |-> OriginalCode]

SpecQueue == InitQueue /\ [][NextQueue]_vars

\* Every (caller, position) at which get_next_task returned a task.
Claims == {<<w, i>> : w \in Workers, i \in 1..MaxClaims + 1}
ValidClaims == {c \in Claims : c[2] <= Len(returned[c[1]])}
AllIdle == \A w \in Workers : wpc[w] = "idle"

\* C1: concurrent get_next_task calls never return the same task id, and once
\* as many claims succeeded as there are tasks no task is PENDING.
C1_DistinctClaims ==
    /\ \A c, d \in ValidClaims :
          c # d => returned[c[1]][c[2]] # returned[d[1]][d[2]]
    /\ (AllIdle /\ Cardinality(ValidClaims) = Len(tasks))
          => get_pending_count(tasks) = 0

\* C1, the case: both callers have returned a task.
C1_BothClaimed == \A w \in Workers : Len(returned[w]) >= 1

\* ============================================== HealthTracker, public calls

unchangedByHealth ==
    UNCHANGED <<tasks, now, prod, staging, backup, fix_history, lessons,
                wpc, wrec, returned, llm, pc, cur, ret, passed, swept, running, stop_requested>>

RecordSuccess(s) ==
    /\ health[s].success_count < MaxFailures
    /\ health' = record_success(health, s, now)
    /\ log' = Log("record_success", s)
    /\ unchangedByHealth

RecordFailure(s, error) ==
    /\ health[s].failure_count < MaxFailures + 1
    /\ health' = record_failure(health, s, error, now)
    /\ log' = [Log("record_failure", s) EXCEPT !.text = error]
    /\ unchangedByHealth

Quarantine(s) ==
    /\ health' = quarantine(health, s, DEFAULT_QUARANTINE_HOURS, now)
    /\ log' = Log("quarantine", s)
    /\ unchangedByHealth

IsQuarantined(s) ==
    /\ IF is_quarantined_raises(health, s)
       THEN /\ health' = health
            /\ log' = [Log("is_quarantined", s) EXCEPT
                          !.stage = "raised", !.text = NaiveAwareError]
       ELSE /\ health' = is_quarantined_store(health, s, now)
            /\ log' = [Log("is_quarantined", s) EXCEPT
                          !.stage = "returned",
                          !.result = is_quarantined(health, s, now)]
    /\ unchangedByHealth

CanAttemptFix(s) ==
    /\ health' = can_attempt_fix_store(health, s, now)
    /\ log' = [Log("can_attempt_fix", s) EXCEPT
                  !.result = can_attempt_fix(health, s, now)]
    /\ unchangedByHealth

RecordFixAttempt(s) ==
    /\ health[s].fix_attempts_today < MaxBudgetHeals
    /\ health' = record_fix_attempt(health, s, now)
    /\ log' = Log("record_fix_attempt", s)
    /\ unchangedByHealth

MarkDead(s) ==
    /\ health' = mark_dead(health, s)
    /\ log' = Log("mark_dead", s)
    /\ unchangedByHealth

\* ---- record_failure alone, on fresh sources
NextFailures ==
    \/ \E s \in Sources, e \in ErrorTexts : RecordFailure(s, e)
    \/ Tick

SpecFailures == InitQueue /\ [][NextFailures]_vars

ExpectedState(n) ==
    IF n >= 3 THEN "QUARANTINED" ELSE IF n = 2 THEN "DEGRADED" ELSE "ACTIVE"

\* C6: after each record_failure on a fresh source the state is ACTIVE for 0 or
\* 1 consecutive failures, DEGRADED for 2, QUARANTINED with quarantine_until
\* set for 3 or more.
C6_StrikesDecideState ==
    \A s \in Sources :
        /\ health[s].state = ExpectedState(health[s].consecutive_failures)
        /\ health[s].consecutive_failures >= 3
              => health[s].quarantine_until # NoTime

\* C6, the case: one source was quarantined by its failures while another has
\* failed once and is still ACTIVE.
C6_Quarantined ==
    \E s, u \in Sources :
        /\ health[s].consecutive_failures >= 3
        /\ health[s].state = "QUARANTINED"
        /\ health[u].consecutive_failures = 1

\* ---- every public call of the tracker, one source
NextHealth ==
    \/ \E e \in ErrorTexts : RecordFailure("s1", e)
    \/ RecordSuccess("s1")
    \/ Quarantine("s1")
    \/ IsQuarantined("s1")
    \/ CanAttemptFix("s1")
    \/ RecordFixAttempt("s1")
    \/ MarkDead("s1")
    \/ Tick

SpecHealth == InitQueue /\ [][NextHealth]_vars

\* C7: record_success on a DEAD source leaves it DEAD.
C7_SuccessKeepsDead ==
    (log.op = "record_success" /\ log.pre.exists /\ log.pre.state = "DEAD")
        => health[log.source].state = "DEAD"

\* ===================================================== DoctorAgent, calls

TheWorld == World(health, prod, staging, backup, fix_history, lessons)

TotalPassed ==
    LET RECURSIVE SumDays(_, _)
        SumDays(s, d) == IF d < 0 THEN 0 ELSE passed[s][d] + SumDays(s, d - 1)
        RECURSIVE SumSources(_)
        SumSources(S) ==
            IF S = {} THEN 0
            ELSE LET s == CHOOSE u \in S : TRUE
                 IN  SumDays(s, Day(MaxTime)) + SumSources(S \ {s})
    IN  SumSources(Sources)

\* The effect of one heal call on the store, the files and the audit log.
HealLog(op, s, o) ==
    [Log(op, s) EXCEPT
        !.result = o.result, !.entered = o.entered,
        !.stage = o.stage, !.validated = o.validated,
        !.prod_before = prod,
        !.staging_before = staging,
        !.history_before = Len(fix_history),
        !.lessons_before = lessons]

\* The stores and files as the heal call with outcome o leaves them.
ApplyHeal(s, o) ==
    /\ health' = o.w.health
    /\ prod' = o.w.prod
    /\ staging' = o.w.staging
    /\ backup' = o.w.backup
    /\ fix_history' = o.w.fix_history
    /\ lessons' = o.w.lessons
    /\ passed' = IF o.entered
                 THEN [passed EXCEPT ![s][Day(now)] = @ + 1]
                 ELSE passed

\* A direct call of DoctorAgent.heal(source, error), the collaborators
\* behaving in one of the ways X, at most `most` calls passing the breaker.
HealIn(s, X, most) ==
    /\ TotalPassed < most
    /\ \E x \in X : \E o \in {heal(TheWorld, s, x, now)} :
          /\ ApplyHeal(s, o)
          /\ log' = HealLog("heal", s, o)
    /\ UNCHANGED <<tasks, now, wpc, wrec, returned, llm, pc, cur, ret, swept, running, stop_requested>>

Heal(s) == HealIn(s, Externals, MaxHeals)

\* A direct call of DoctorAgent.rollback(source).
Rollback(s) ==
    /\ prod' = [prod EXCEPT ![s] = rollback(prod[s], backup[s]).prod]
    /\ backup' = [backup EXCEPT ![s] = rollback(prod[s], backup[s]).backup]
    /\ log' = [Log("rollback", s) EXCEPT
                  !.result = rollback(prod[s], backup[s]).ok,
                  !.prod_before = prod]
    /\ UNCHANGED <<tasks, now, health, staging, fix_history, lessons,
                   wpc, wrec, returned, llm, pc, cur, ret, passed, swept, running, stop_requested>>

NextHeal ==
    \/ \E s \in Sources : Heal(s)
    \/ \E s \in Sources : Rollback(s)
    \/ LoopTick

\* The row of a source whose fix budget of the day is used up.
SpentRow ==
    [DefaultRow EXCEPT !.exists = TRUE,
                       !.fix_attempts_today = MAX_FIX_ATTEMPTS_PER_DAY,
                       !.fix_attempts_reset_at = 0]

\* heal starts with or without a production file for each source, and with
\* the day's budget of s2 untouched or used up.
InitHeal ==
    /\ InitRest
    /\ prod \in [Sources -> {NoFile, OriginalCode}]
    /\ health \in {[s \in Sources |-> DefaultRow],
                   [s \in Sources |-> IF s = "s2" THEN SpentRow ELSE DefaultRow]}

SpecHeal == InitHeal /\ [][NextHeal]_vars

\* ---- the circuit breaker: heal calls among the tracker's other callers
Nominal ==
    [collect |-> "ok", oracle |-> "ok", confidence |-> 95, patch |-> "patched",
     stage_ok |-> TRUE, promote |-> "ok", learn_ok |-> TRUE]

BudgetExternals ==
    {Nominal, [Nominal EXCEPT !.oracle = "raise"], [Nominal EXCEPT !.collect = "raise"]}

DispatchExternals ==
    BudgetExternals \cup {[Nominal EXCEPT !.patch = "no_class"]}

BudgetHeal(s) == HealIn(s, BudgetExternals, MaxBudgetHeals)

BudgetSuccess(s) ==
    /\ health[s].success_count < MaxBudgetCalls
    /\ RecordSuccess(s)

BudgetFailure(s) ==
    /\ health[s].failure_count < MaxBudgetCalls
    /\ RecordFailure(s, "boom")

NextBudget ==
    \/ BudgetHeal("s1")
    \/ CanAttemptFix("s1")
    \/ IsQuarantined("s1")
    \/ BudgetSuccess("s1")
    \/ BudgetFailure("s1")
    \/ Tick

SpecBudget == InitBudget /\ [][NextBudget]_vars

\* C3: per source and calendar day at most MAX_FIX_ATTEMPTS_PER_DAY heal calls
\* pass the circuit-breaker check.
C3_DailyBudget ==
    \A s \in Sources : \A d \in Days : passed[s][d] <= MAX_FIX_ATTEMPTS_PER_DAY

\* C3, the case: a heal call was refused on a day whose budget is used up.
C3_Refused ==
    /\ log.op = "heal"
    /\ ~log.entered
    /\ passed[log.source][Day(now)] = MAX_FIX_ATTEMPTS_PER_DAY

\* C4: a heal call that ends before the promote step leaves every production
\* file as it was; production changes only by promoting, in the same call, a
\* staged file that passed validate_staged, and only for the healed source.
C4_ProductionOnlyByPromote ==
    log.op = "heal" =>
        /\ \A u \in Sources \ {log.source} : prod[u] = log.prod_before[u]
        /\ log.stage \in {"refused", "exception", "diagnose", "patch", "stage", "validate"}
              => prod = log.prod_before
        /\ prod[log.source] # log.prod_before[log.source]
              => /\ log.validated
                 /\ log.stage = "done"
                 /\ ast_parse_ok(prod[log.source])
                 /\ compile_ok(prod[log.source])
                 /\ has_class(prod[log.source])

\* C4, the case: a heal call staged a candidate, failed validation and left
\* production as it was.
C4_AbortedAfterStaging ==
    /\ log.op = "heal"
    /\ log.stage = "validate"
    /\ staging[log.source] \in Patches
    /\ prod[log.source] = OriginalCode

\* C5: every heal call that passes the circuit breaker has appended exactly one
\* FixHistoryRecord when it returns, also when a stage raised.
C5_OneHistoryRecord ==
    (log.op = "heal" /\ log.entered)
        => Len(fix_history) = log.history_before + 1

\* ============================================================= Orchestrator

\* Orchestrator.startup: cleanup_stale_tasks, then every task still
\* IN_PROGRESS is put back to PENDING with update_state.
RECURSIVE ResetAll(_, _, _)
ResetAll(tq, ids, t) ==
    IF ids = {} THEN tq
    ELSE LET i == CHOOSE j \in ids : \A k \in ids : j <= k
         IN  ResetAll(update_state(tq, i, "PENDING", NoText, t), ids \ {i}, t)

startup(tq, t) ==
    LET cleaned == cleanup_stale_tasks(tq, t, STALE_MAX_AGE_HOURS)
    IN  ResetAll(cleaned, InProgressIds(cleaned), t)

\* Orchestrator.fix_source
fix_source(tq, s, priority) == add_task(tq, "FIX_SOURCE", s, priority)

\* One iteration of the loop of check_health_and_queue_fixes, for the source
\* `s` of the list get_degraded_sources returned; st = [health, tasks, queued].
SweepOne(st, s, t) ==
    LET released == IF st.health[s].state = "QUARANTINED"
                    THEN is_quarantined_store(st.health, s, t)
                    ELSE st.health
        checked == can_attempt_fix_store(released, s, t)
    IN  IF st.health[s].state = "QUARANTINED"
           /\ is_quarantined_raises(st.health, s)
        THEN [st EXCEPT !.raised = TRUE]
        ELSE IF st.health[s].state = "QUARANTINED"
                /\ is_quarantined(st.health, s, t)
        THEN st
        ELSE IF ~can_attempt_fix(released, s, t)
             THEN [st EXCEPT !.health = checked]
             ELSE [health |-> checked,
                   tasks |-> fix_source(st.tasks, s, FIX_PRIORITY),
                   queued |-> st.queued \cup {Len(st.tasks) + 1},
                   raised |-> FALSE]

\* Orchestrator.check_health_and_queue_fixes, the rows taken in the order
\* `order` (the query has no ORDER BY).
RECURSIVE SweepFrom(_, _, _)
SweepFrom(st, order, t) ==
    IF order = <<>> \/ st.raised THEN st
    ELSE SweepFrom(SweepOne(st, Head(order), t), Tail(order), t)

check_health_and_queue_fixes(h, tq, order, t) ==
    SweepFrom([health |-> h, tasks |-> tq, queued |-> {}, raised |-> FALSE],
              order, t)

Orders(S) ==
    {o \in UNION {[1..n -> S] : n \in 0..Cardinality(S)} :
        /\ Len(o) = Cardinality(S)
        /\ \A i, j \in 1..Len(o) : i # j => o[i] # o[j]}

\* What the plugin, the stores and the tracker do during one refresh:
\* "no_parser" / "no_fetcher": no matching class is registered;
\* "raise": fetch, bronze.save, parse or upsert_entity raises `text`;
\* "ok": the data is stored.
ParserNameError == "name 'parser_name' is not defined"
FetcherNameError == "name 'fetcher_class_name' is not defined"
StoreErrorText == "database is locked"
ScoutTypeError == "ScoutAgent.analyze() missing 1 required positional argument: 'url'"

unchangedByLoop == UNCHANGED <<wpc, wrec, returned, llm>>

\* The process is killed while a task is being handled and started again.
Crash ==
    /\ pc \in {"dispatch", "refresh_completed"}
    /\ pc' = "init"
    /\ cur' = NoTask
    /\ ret' = "none"
    /\ running' = FALSE
    /\ stop_requested' = FALSE
    /\ log' = [NoLog EXCEPT !.op = "crash", !.task = cur]
    /\ UNCHANGED <<tasks, now, health, prod, staging, backup, fix_history,
                   lessons, passed, swept>>
    /\ unchangedByLoop

\* run() has ended, by returning or by an exception; a new process is started.
Restart ==
    /\ pc \in {"raised", "stopped"}
    /\ pc' = "init"
    /\ cur' = NoTask
    /\ ret' = "none"
    /\ running' = FALSE
    /\ stop_requested' = FALSE
    /\ log' = [NoLog EXCEPT !.op = "restart", !.task = cur]
    /\ UNCHANGED <<tasks, now, health, prod, staging, backup, fix_history,
                   lessons, passed, swept>>
    /\ unchangedByLoop

\* Orchestrator.run: startup()
Startup ==
    /\ pc = "init"
    /\ tasks' = startup(tasks, now)
    /\ pc' = "started"
    /\ log' = [NoLog EXCEPT !.op = "startup"]
    /\ UNCHANGED <<now, health, prod, staging, backup, fix_history, lessons,
                   cur, ret, passed, swept, running, stop_requested>>
    /\ unchangedByLoop

\* Orchestrator.run: self.running = True, after startup() has returned.
SetRunning ==
    /\ pc = "started"
    /\ running' = TRUE
    /\ pc' = "loop"
    /\ log' = [NoLog EXCEPT !.op = "set_running"]
    /\ UNCHANGED <<tasks, now, health, prod, staging, backup, fix_history,
                   lessons, cur, ret, passed, swept, stop_requested>>
    /\ unchangedByLoop

\* Orchestrator.run: the test of `while self.running`.
LoopCheck ==
    /\ pc = "loop"
    /\ pc' = IF running THEN "sweep" ELSE "stopped"
    /\ log' = [NoLog EXCEPT !.op = IF running THEN "iteration" ELSE "run_returns"]
    /\ UNCHANGED <<tasks, now, health, prod, staging, backup, fix_history,
                   lessons, cur, ret, passed, swept, running, stop_requested>>
    /\ unchangedByLoop

\* Orchestrator.stop, called from another thread (the API's shutdown) once
\* run() has been invoked.
Stop ==
    /\ pc \notin {"init", "raised", "stopped"}
    /\ ~stop_requested
    /\ running' = FALSE
    /\ stop_requested' = TRUE
    /\ log' = [NoLog EXCEPT !.op = "stop"]
    /\ UNCHANGED <<tasks, now, health, prod, staging, backup, fix_history,
                   lessons, pc, cur, ret, passed, swept>>
    /\ unchangedByLoop

\* One call of check_health_and_queue_fixes.
SweepCall ==
    \E order \in Orders(get_degraded_sources(health)) :
        LET st == check_health_and_queue_fixes(health, tasks, order, now)
        IN  /\ Len(st.tasks) <= MaxLoopTasks
            /\ health' = st.health
            /\ tasks' = st.tasks
            /\ swept' = swept \cup st.queued
            /\ log' = [NoLog EXCEPT
                          !.op = "sweep", !.task = Len(tasks),
                          !.count = Cardinality(st.queued),
                          !.stage = IF st.raised THEN "raised" ELSE "returned",
                          !.text = IF st.raised THEN NaiveAwareError ELSE NoText]

\* Orchestrator.run: check_health_and_queue_fixes()
Sweep ==
    /\ pc = "sweep"
    /\ SweepCall
    /\ pc' = IF log'.stage = "raised" THEN "raised" ELSE "claim"
    /\ UNCHANGED <<now, prod, staging, backup, fix_history, lessons,
                   cur, ret, passed, running, stop_requested>>
    /\ unchangedByLoop

\* The dashboard's "Check Degraded Sources" button runs the same sweep from
\* its own process, at any moment.
UiSweep ==
    /\ get_degraded_sources(health) # {}
    /\ SweepCall
    /\ UNCHANGED <<now, prod, staging, backup, fix_history, lessons,
                   pc, cur, ret, passed, running, stop_requested>>
    /\ unchangedByLoop

\* Orchestrator.process_queue: get_next_task(); an empty queue sends the loop
\* to its next iteration.
\* Orchestrator.run: get_degraded_sources raises (the store is locked or
\* unreachable); run has no handler, the exception leaves the loop.
SweepRaises ==
    /\ pc = "sweep"
    /\ pc' = "raised"
    /\ log' = [NoLog EXCEPT !.op = "sweep_raises", !.text = StoreErrorText]
    /\ UNCHANGED <<tasks, now, health, prod, staging, backup, fix_history,
                   lessons, cur, ret, passed, swept, running, stop_requested>>
    /\ unchangedByLoop

\* Orchestrator.run: get_next_task raises in process_queue, before
\* process_task and its handler are reached.
ClaimRaises ==
    /\ pc = "claim"
    /\ pc' = "raised"
    /\ log' = [NoLog EXCEPT !.op = "claim_raises", !.text = StoreErrorText]
    /\ UNCHANGED <<tasks, now, health, prod, staging, backup, fix_history,
                   lessons, cur, ret, passed, swept, running, stop_requested>>
    /\ unchangedByLoop

ProcessQueue ==
    /\ pc = "claim"
    /\ tasks' = get_next_task(tasks, now)
    /\ cur' = SelectNextPending(tasks)
    /\ pc' = IF SelectNextPending(tasks) = NoTask THEN "loop" ELSE "dispatch"
    /\ ret' = "none"
    /\ log' = [NoLog EXCEPT !.op = "get_next_task", !.task = SelectNextPending(tasks)]
    /\ UNCHANGED <<now, health, prod, staging, backup, fix_history, lessons,
                   passed, swept, running, stop_requested>>
    /\ unchangedByLoop

Dispatching(task_type) ==
    /\ pc = "dispatch"
    /\ tasks[cur].task_type = task_type

\* process_task -> _handle_add_source: the call self.scout.analyze(url) lacks
\* the url argument of ScoutAgent.analyze(source_name, url), so it raises a
\* TypeError, which the handler reports as a Scout failure.
\* The task's URL is a page the Scout and the Builder can turn into a plugin,
\* or one they cannot. The call at line 134 passes one argument to
\* ScoutAgent.analyze(source_name, url): it raises TypeError before the Scout
\* looks at the URL.
Urls == {"analysable", "not_analysable"}

HandleAddSource ==
    /\ Dispatching("ADD_SOURCE")
    /\ tasks' = update_state(tasks, cur, "FAILED",
                             "Scout failed: " \o ScoutTypeError, now)
    /\ ret' = "False"
    /\ pc' = "returned"
    /\ \E url \in Urls :
          log' = [Log("process_task", tasks[cur].target) EXCEPT
                     !.task = cur, !.input = url]
    /\ UNCHANGED <<now, health, prod, staging, backup, fix_history, lessons,
                   cur, passed, swept, running, stop_requested>>
    /\ unchangedByLoop

\* process_task -> _handle_fix_source
HandleFixSourceIn(X) ==
    /\ Dispatching("FIX_SOURCE")
    /\ LET s == tasks[cur].target
       IN  IF ~health[s].exists
           THEN /\ tasks' = update_state(tasks, cur, "FAILED", "No health record", now)
                /\ ret' = "False"
                /\ log' = [Log("process_task", s) EXCEPT !.task = cur]
                /\ UNCHANGED <<health, prod, staging, backup, fix_history,
                               lessons, passed>>
           ELSE \E x \in X : \E o \in {heal(TheWorld, s, x, now)} :
                       /\ ApplyHeal(s, o)
                       /\ log' = [HealLog("process_task", s, o) EXCEPT
                                     !.task = cur, !.ext = x]
                       /\ tasks' = IF o.result
                                   THEN update_state(tasks, cur, "COMPLETED", NoText, now)
                                   ELSE update_state(tasks, cur, "FAILED",
                                                     "Doctor healing failed", now)
                       /\ ret' = IF o.result THEN "True" ELSE "False"
    /\ pc' = "returned"
    /\ UNCHANGED <<now, cur, swept, running, stop_requested>>
    /\ unchangedByLoop

HandleFixSource == HandleFixSourceIn(DispatchExternals)

\* process_task -> _handle_refresh_source, up to update_state(COMPLETED).
\* A missing parser or fetcher class reaches a log call that names an
\* undefined variable; the NameError is caught by the handler's except clause.
RefreshFails(text) ==
    /\ Dispatching("REFRESH_SOURCE")
    /\ tasks' = update_state(tasks, cur, "FAILED", text, now)
    /\ ret' = "False"
    /\ pc' = "returned"
    /\ log' = [Log("process_task", tasks[cur].target) EXCEPT
                  !.task = cur, !.text = text]
    /\ UNCHANGED <<now, health, prod, staging, backup, fix_history, lessons,
                   cur, passed, swept, running, stop_requested>>
    /\ unchangedByLoop

RefreshStores ==
    /\ Dispatching("REFRESH_SOURCE")
    /\ tasks' = update_state(tasks, cur, "COMPLETED", NoText, now)
    /\ pc' = "refresh_completed"
    /\ log' = [Log("refresh_stored", tasks[cur].target) EXCEPT !.task = cur]
    /\ UNCHANGED <<now, health, prod, staging, backup, fix_history, lessons,
                   cur, ret, passed, swept, running, stop_requested>>
    /\ unchangedByLoop

HandleRefreshSource ==
    \/ RefreshFails(ParserNameError)
    \/ RefreshFails(FetcherNameError)
    \/ \E e \in ErrorTexts : RefreshFails(e)
    \/ RefreshStores

\* _handle_refresh_source after update_state(COMPLETED): record_success and
\* return True; if record_success raises, the except clause marks the task FAILED.
RefreshRecordSuccess ==
    /\ pc = "refresh_completed"
    /\ health' = record_success(health, tasks[cur].target, now)
    /\ ret' = "True"
    /\ pc' = "returned"
    /\ log' = [Log("process_task", tasks[cur].target) EXCEPT !.task = cur]
    /\ UNCHANGED <<tasks, now, prod, staging, backup, fix_history, lessons,
                   cur, passed, swept, running, stop_requested>>
    /\ unchangedByLoop

RefreshRecordSuccessRaises(text) ==
    /\ pc = "refresh_completed"
    /\ tasks' = update_state(tasks, cur, "FAILED", text, now)
    /\ ret' = "False"
    /\ pc' = "returned"
    /\ log' = [Log("process_task", tasks[cur].target) EXCEPT
                  !.task = cur, !.text = text]
    /\ UNCHANGED <<now, health, prod, staging, backup, fix_history, lessons,
                   cur, passed, swept, running, stop_requested>>
    /\ unchangedByLoop

\* The task store is unavailable while a refresh is handled (SQLite reports
\* "database is locked" to a writer that waits too long): the handler's
\* update_state raises, and so does the update_state of both except clauses,
\* so the exception leaves process_task and run().
RefreshStoreRaises ==
    /\ Dispatching("REFRESH_SOURCE")
    /\ ret' = "raised"
    /\ pc' = "raised"
    /\ log' = [Log("process_task", tasks[cur].target) EXCEPT
                  !.task = cur, !.text = StoreErrorText]
    /\ UNCHANGED <<tasks, now, health, prod, staging, backup, fix_history,
                   lessons, cur, passed, swept, running, stop_requested>>
    /\ unchangedByLoop

\* process_queue returns; the loop goes to its next iteration.
Return ==
    /\ pc = "returned"
    /\ pc' = "loop"
    /\ cur' = NoTask
    /\ ret' = "none"
    /\ log' = [NoLog EXCEPT !.op = "return", !.task = cur]
    /\ UNCHANGED <<tasks, now, health, prod, staging, backup, fix_history,
                   lessons, passed, swept, running, stop_requested>>
    /\ unchangedByLoop

\* Callers outside the loop: the CLI and the API enqueue tasks, the scrapers
\* report failures, an operator marks a source dead.
\* The CLI command `add <url> --now`, run in its own process: add_source,
\* startup(), then process_task on the task just enqueued, which
\* _handle_add_source ends as in HandleAddSource.
CmdAddNow(s) ==
    /\ Len(tasks) < MaxLoopTasks
    /\ tasks' = update_state(
                    startup(add_task(tasks, "ADD_SOURCE", s, DEFAULT_PRIORITY), now),
                    Len(tasks) + 1, "FAILED",
                    "Scout failed: " \o ScoutTypeError, now)
    /\ log' = [Log("cmd_add_now", s) EXCEPT !.task = Len(tasks) + 1]
    /\ UNCHANGED <<now, health, prod, staging, backup, fix_history, lessons,
                   pc, cur, ret, passed, swept, running, stop_requested>>
    /\ unchangedByLoop

LoopEnqueue ==
    /\ Len(tasks) < MaxLoopTasks
    /\ EnqueueAny

LoopFailure(s) ==
    /\ health[s].failure_count < MaxLoopFailures
    /\ RecordFailure(s, "boom")

Next ==
    \/ Startup
    \/ SetRunning
    \/ LoopCheck
    \/ Stop
    \/ Restart
    \/ Sweep
    \/ SweepRaises
    \/ UiSweep
    \/ ProcessQueue
    \/ ClaimRaises
    \/ HandleAddSource
    \/ HandleFixSource
    \/ HandleRefreshSource
    \/ RefreshStoreRaises
    \/ RefreshRecordSuccess
    \/ \E e \in ErrorTexts : RefreshRecordSuccessRaises(e)
    \/ Return
    \/ Crash
    \/ LoopEnqueue
    \/ \E s \in Sources : CmdAddNow(s)
    \/ LoopFailure("s1")
    \/ MarkDead("s1")

Spec == InitBudget /\ [][Next]_vars

\* ---- C2: once a task is COMPLETED or FAILED, no step of the orchestrator
\* (enqueue, claim, dispatch, startup recovery, stale cleanup) changes its state.
C2_TerminalStatesFinal ==
    [][\A i \in 1..Len(tasks) :
          tasks[i].state \in {"COMPLETED", "FAILED"}
              => tasks'[i].state = tasks[i].state]_vars

\* ---- C8: a FIX_SOURCE task dispatched for a source whose state is DEAD is
\* refused before the healing pipeline starts, and the task ends FAILED.
C8_DeadSourceRefused ==
    (/\ log.op = "process_task"
     /\ log.task # NoTask
     /\ tasks[log.task].task_type = "FIX_SOURCE"
     /\ log.pre.exists
     /\ log.pre.state = "DEAD")
        => /\ ~log.entered
           /\ tasks[log.task].state = "FAILED"

\* ---- C9: after any number of sweeps there is at most one PENDING FIX_SOURCE
\* task per source among those the sweep enqueued.
C9_OnePendingSweepFix ==
    \A s \in Sources :
        Cardinality({i \in swept : /\ tasks[i].state = "PENDING"
                                   /\ tasks[i].task_type = "FIX_SOURCE"
                                   /\ tasks[i].target = s}) <= 1

\* ---- C10: process_task does not raise; on return the task is COMPLETED or
\* FAILED, True is returned exactly when it is COMPLETED, and an exception
\* raised in the handler leaves the task FAILED with the exception's text as
\* error_message.
C10_ProcessTaskTerminates ==
    (log.op = "process_task")
        => /\ ret \in {"True", "False"}
           /\ tasks[log.task].state \in {"COMPLETED", "FAILED"}
           /\ (ret = "True") <=> (tasks[log.task].state = "COMPLETED")
           /\ (log.text # NoText)
                  => /\ tasks[log.task].state = "FAILED"
                     /\ tasks[log.task].error_message = log.text

\* ========================================================= startup recovery
\* Tasks are enqueued, claimed by this process or by another one (w1) that
\* dies holding them, the clock advances, the process crashes and starts again.
\* Tasks of the three types (three priorities) waiting when the process starts.
StartupEnqueue ==
    /\ Len(tasks) < MaxLoopTasks
    /\ \/ Enqueue("ADD_SOURCE", "s1", DEFAULT_PRIORITY)
       \/ Enqueue("FIX_SOURCE", "s1", FIX_PRIORITY)
       \/ Enqueue("REFRESH_SOURCE", "s1", REFRESH_PRIORITY)

\* Another process on the same store begins a claim.
OtherClaimSelect ==
    /\ Len(returned["w1"]) < MaxLoopTasks
    /\ ClaimSelect("w1")

NextStartup ==
    \/ StartupEnqueue
    \/ OtherClaimSelect
    \/ ClaimUpdate("w1")
    \/ Tick
    \/ Startup
    \/ SetRunning
    \/ LoopCheck
    \/ Sweep
    \/ ProcessQueue
    \/ Crash

SpecStartup == InitQueue /\ [][NextStartup]_vars

Stale(task, t) ==
    task.state = "IN_PROGRESS" /\ task.started_at < t - STALE_MAX_AGE_HOURS

\* ---- C11: startup() leaves every IN_PROGRESS task started more than 24h ago
\* FAILED with the stale-task error, every other IN_PROGRESS task PENDING (so
\* that get_next_task selects among them again), and no task IN_PROGRESS.
C11_StartupRecovers ==
    [][(pc = "init" /\ pc' = "started") =>
          /\ \A i \in 1..Len(tasks) :
                /\ Stale(tasks[i], now)
                      => /\ tasks'[i].state = "FAILED"
                         /\ tasks'[i].error_message = StaleText
                /\ (tasks[i].state = "IN_PROGRESS" /\ ~Stale(tasks[i], now))
                      => /\ tasks'[i].state = "PENDING"
                         /\ i \in PendingIds(tasks')
                         /\ SelectNextPending(tasks') # NoTask
          /\ InProgressIds(tasks') = {}]_vars

\* C11, the case: startup has just failed one stale task and put a younger
\* interrupted one back to PENDING.
C11_StaleAndYoung ==
    /\ log.op = "startup"
    /\ \E i, j \in 1..Len(tasks) :
          /\ tasks[i].state = "FAILED"
          /\ tasks[i].error_message = StaleText
          /\ tasks[j].state = "PENDING"
          /\ tasks[j].started_at # NoTime

\* ---- C12: a dispatched REFRESH_SOURCE task reports to the Health Tracker:
\* record_success when the refresh succeeded, and a recorded failure
\* (consecutive_failures one higher) when it failed.
C12_RefreshReportsOutcome ==
    (/\ log.op = "process_task"
     /\ log.task # NoTask
     /\ tasks[log.task].task_type = "REFRESH_SOURCE")
        => /\ ret = "True"
                 => health[log.source].success_count = log.pre.success_count + 1
           /\ ret = "False"
                 => /\ health[log.source].exists
                    /\ health[log.source].consecutive_failures
                           = log.pre.consecutive_failures + 1

\* ---- C13: a task is COMPLETED or FAILED only after get_next_task claimed
\* it (IN_PROGRESS, started_at stamped), whichever entry point dispatched it.
C13_TerminalWasClaimed ==
    \A i \in 1..Len(tasks) :
        tasks[i].state \in {"COMPLETED", "FAILED"} => tasks[i].started_at # NoTime

\* ======================================================= the daily budget
\* can_attempt_fix and record_fix_attempt called directly, on two sources,
\* while the clock crosses the day boundary; `passed` counts the
\* record_fix_attempt calls of each source and day.
CountedFixAttempt(s) ==
    /\ health[s].fix_attempts_today < MaxBudgetHeals
    /\ health' = record_fix_attempt(health, s, now)
    /\ passed' = [passed EXCEPT ![s][Day(now)] = @ + 1]
    /\ log' = Log("record_fix_attempt", s)
    /\ UNCHANGED <<tasks, now, prod, staging, backup, fix_history, lessons,
                   wpc, wrec, returned, llm, pc, cur, ret, swept, running,
                   stop_requested>>

NextAttempts ==
    \/ \E s \in Sources : CanAttemptFix(s)
    \/ \E s \in Sources : CountedFixAttempt(s)
    \/ Tick

SpecAttempts == InitQueue /\ [][NextAttempts]_vars

\* ---- C14: can_attempt_fix is true for a fresh source, false once
\* MAX_FIX_ATTEMPTS_PER_DAY record_fix_attempt calls were made on the current
\* calendar day, and true again (the counter back at 0) on the first call
\* after the day changed.
C14_BudgetTimeline ==
    log.op = "can_attempt_fix" =>
        /\ log.result <=> (passed[log.source][Day(now)] < MAX_FIX_ATTEMPTS_PER_DAY)
        /\ health[log.source].fix_attempts_today = passed[log.source][Day(now)]
        /\ ~log.pre.exists => log.result

\* C14, the case: the budget was used up yesterday and the first call of the
\* new day returns true.
C14_NewDayAllows ==
    /\ log.op = "can_attempt_fix"
    /\ log.result
    /\ Day(now) = 1
    /\ passed[log.source][0] >= MAX_FIX_ATTEMPTS_PER_DAY
    /\ log.pre.fix_attempts_today >= MAX_FIX_ATTEMPTS_PER_DAY

\* ================================================== FIX_SOURCE, dispatched
\* The loop dispatching FIX_SOURCE tasks for s1, the Doctor's collaborators
\* behaving in every way.  s1 starts without a health row, or DEGRADED after
\* two failures with 0, 2 or 3 of the day's fix attempts used.
DegradedRow(n) ==
    [DefaultRow EXCEPT !.exists = TRUE,
                       !.state = "DEGRADED",
                       !.last_error = "boom",
                       !.failure_count = 2,
                       !.consecutive_failures = 2,
                       !.fix_attempts_today = n,
                       !.fix_attempts_reset_at = 0]

InitFix ==
    /\ InitRest
    /\ prod \in [Sources -> {NoFile, OriginalCode}]
    /\ \E row \in {DefaultRow} \cup
                  {DegradedRow(n) : n \in {0, MAX_FIX_ATTEMPTS_PER_DAY - 1,
                                           MAX_FIX_ATTEMPTS_PER_DAY}} :
          health = [s \in Sources |-> IF s = "s1" THEN row ELSE DefaultRow]

FixEnqueue ==
    /\ Len(tasks) < MaxLoopTasks
    /\ Enqueue("FIX_SOURCE", "s1", FIX_PRIORITY)

FixDispatch == HandleFixSourceIn(Externals)

\* The process is killed inside heal's pipeline: can_attempt_fix and
\* record_fix_attempt have committed, no stage has written anything yet, the
\* task is left IN_PROGRESS.
FixCrash ==
    /\ Dispatching("FIX_SOURCE")
    /\ health[tasks[cur].target].exists
    /\ can_attempt_fix(health, tasks[cur].target, now)
    /\ LET s == tasks[cur].target
       IN  /\ health' = record_fix_attempt(
                            can_attempt_fix_store(health, s, now), s, now)
           /\ passed' = [passed EXCEPT ![s][Day(now)] = @ + 1]
           /\ log' = [Log("heal_crash", s) EXCEPT
                         !.task = cur, !.entered = TRUE, !.stage = "crash"]
    /\ pc' = "init"
    /\ cur' = NoTask
    /\ ret' = "none"
    /\ running' = FALSE
    /\ stop_requested' = FALSE
    /\ UNCHANGED <<tasks, now, prod, staging, backup, fix_history, lessons,
                   swept>>
    /\ unchangedByLoop

NextFix ==
    \/ FixEnqueue
    \/ Startup
    \/ SetRunning
    \/ LoopCheck
    \/ Sweep
    \/ ProcessQueue
    \/ FixDispatch
    \/ FixCrash
    \/ Return
    \/ Tick

SpecFix == InitFix /\ [][NextFix]_vars

\* The FIX_SOURCE task the loop has just dispatched, and its source.
FixDispatched ==
    /\ log.op = "process_task"
    /\ log.task # NoTask
    /\ tasks[log.task].task_type = "FIX_SOURCE"
    /\ log.pre.exists

FilesUntouched ==
    /\ prod = log.prod_before
    /\ staging = log.staging_before

\* ---- C15: a FIX_SOURCE task dispatched while can_attempt_fix is false ends
\* FAILED at once: no Oracle or Generator call, no staging or production file
\* written, fix_attempts_today not incremented.
C15_RefusedWhenBudgetSpent ==
    (/\ FixDispatched
     /\ ~can_attempt_fix([health EXCEPT ![log.source] = log.pre], log.source, now))
        => /\ tasks[log.task].state = "FAILED"
           /\ ret = "False"
           /\ ~log.entered
           /\ log.stage = "refused"
           /\ FilesUntouched
           /\ Len(fix_history) = log.history_before
           /\ lessons = log.lessons_before
           /\ health[log.source].fix_attempts_today = log.pre.fix_attempts_today

\* C15, the case: a task was refused on a day whose three attempts are used.
C15_Refused ==
    /\ FixDispatched
    /\ log.pre.fix_attempts_today = MAX_FIX_ATTEMPTS_PER_DAY
    /\ log.pre.fix_attempts_reset_at # NoTime
    /\ Day(log.pre.fix_attempts_reset_at) = Day(now)
    /\ tasks[log.task].state = "FAILED"

\* The Oracle was asked for a diagnosis in the dispatched call.
OracleAsked ==
    /\ FixDispatched
    /\ log.entered
    /\ log.ext.collect = "ok"

LastFixRecord == fix_history[Len(fix_history)]

\* ---- C16: when the Oracle's diagnosis has confidence below 0.3 the task ends
\* FAILED, heal aborts at the diagnosis stage with no staging file written and
\* production unchanged, one FixHistoryRecord with success = false is
\* recorded and no Lesson is added.
C16_LowConfidenceAborts ==
    (/\ OracleAsked
     /\ log.ext.oracle = "ok"
     /\ log.ext.confidence < CONFIDENCE_THRESHOLD)
        => /\ tasks[log.task].state = "FAILED"
           /\ ret = "False"
           /\ log.stage = "diagnose"
           /\ FilesUntouched
           /\ Len(fix_history) = log.history_before + 1
           /\ LastFixRecord.source_name = log.source
           /\ LastFixRecord.success = FALSE
           /\ lessons = log.lessons_before

\* C16, the case: the Oracle answered with confidence 0.1.
C16_LowConfidence ==
    /\ OracleAsked
    /\ log.ext.oracle = "ok"
    /\ log.ext.confidence = 10
    /\ tasks[log.task].state = "FAILED"

\* ---- C17: if the Oracle call of diagnose raises, times out or returns text
\* that is not JSON, the diagnosis has confidence 0 and heal aborts at the
\* diagnosis stage: it returns False, no patch is generated, staged or promoted.
C17_OracleFailureAborts ==
    (/\ OracleAsked
     /\ log.ext.oracle \in {"raise", "badjson"})
        => /\ diagnose(log.ext) = 0
           /\ ~log.result
           /\ ret = "False"
           /\ log.stage = "diagnose"
           /\ ~log.validated
           /\ FilesUntouched
           /\ LastFixRecord.patch_applied = NoText

\* C17, the case: the Oracle's answer was not JSON and production code exists.
C17_BadJson ==
    /\ OracleAsked
    /\ log.ext.oracle = "badjson"
    /\ log.prod_before[log.source] = OriginalCode
    /\ ~log.result

\* The collaborators of the end-to-end success scenario: the Oracle returns a
\* high-confidence diagnosis and distils the lesson, the Generator returns a
\* valid patch, the file operations succeed.
SuccessScenario ==
    /\ OracleAsked
    /\ log.prod_before[log.source] # NoFile
    /\ log.ext.oracle = "ok"
    /\ log.ext.confidence >= CONFIDENCE_THRESHOLD
    /\ validate_staged(log.ext.patch)
    /\ log.ext.stage_ok
    /\ log.ext.promote = "ok"
    /\ log.ext.learn_ok

\* ---- C18: end-to-end success: for a source with a health record and
\* production code, a high-confidence diagnosis and a valid patch end the
\* FIX_SOURCE task COMPLETED, with production equal to the patch, a
\* FixHistoryRecord with success = true and one new Lesson.
C18_EndToEndSuccess ==
    SuccessScenario
        => /\ tasks[log.task].state = "COMPLETED"
           /\ ret = "True"
           /\ prod[log.source] = log.ext.patch
           /\ staging[log.source] = NoFile
           /\ Len(fix_history) = log.history_before + 1
           /\ LastFixRecord.source_name = log.source
           /\ LastFixRecord.success = TRUE
           /\ lessons = log.lessons_before + 1

\* C18, the case: a degraded source was healed with confidence 0.95.
C18_Healed ==
    /\ SuccessScenario
    /\ log.ext.confidence = 95
    /\ log.pre.state = "DEGRADED"
    /\ log.prod_before[log.source] = OriginalCode
    /\ prod[log.source] = "patched"
    /\ tasks[log.task].state = "COMPLETED"

\* ---- C19: once run() is in its loop, neither a handler exception nor a store
\* failure during the health sweep or the claim ends the loop: run is never
\* left by an exception and returns only after stop() was called.
C19_LoopSurvives ==
    /\ pc # "raised"
    /\ (pc = "stopped") => stop_requested

\* ---- C20: a stop() called after run() was invoked (also while startup() is
\* still executing) is honoured at the next iteration boundary: no iteration of
\* the loop begins while a stop request is outstanding.
C20_StopHonoured ==
    ~(log.op = "iteration" /\ stop_requested)

\* A step in which the loop's process_queue calls get_next_task.
GetNextTaskStep == pc = "claim" /\ pc' \in {"loop", "dispatch"}

\* Task i comes before every other PENDING task: no PENDING task has a higher
\* priority, none of the same priority was created earlier.
FirstInOrder(tq, i) ==
    /\ i \in 1..Len(tq)
    /\ tq[i].state = "PENDING"
    /\ \A j \in 1..Len(tq) :
          tq[j].state = "PENDING"
              => /\ tq[j].priority <= tq[i].priority
                 /\ (tq[j].priority = tq[i].priority)
                        => tq[i].created_at <= tq[j].created_at

\* ---- C21: get_next_task returns the PENDING task of highest priority,
\* earliest created_at among equals, moves exactly that task to IN_PROGRESS and
\* stamps its started_at; with no PENDING task it returns None and changes no
\* task.
C21_NextTaskByPriority ==
    [][GetNextTaskStep =>
          IF \E i \in 1..Len(tasks) : tasks[i].state = "PENDING"
          THEN /\ FirstInOrder(tasks, cur')
               /\ Len(tasks') = Len(tasks)
               /\ tasks'[cur'].state = "IN_PROGRESS"
               /\ tasks'[cur'].started_at = now
               /\ \A f \in {"task_type", "target", "priority", "created_at",
                            "completed_at", "error_message", "retry_count"} :
                     tasks'[cur'][f] = tasks[cur'][f]
               /\ \A j \in 1..Len(tasks) : j # cur' => tasks'[j] = tasks[j]
          ELSE /\ cur' = NoTask
               /\ tasks' = tasks]_vars

\* C21, the case: the task added second was claimed ahead of an older PENDING
\* task of lower priority.
C21_HigherPriorityFirst ==
    /\ log.op = "get_next_task"
    /\ log.task = 2
    /\ tasks[1].state = "PENDING"
    /\ tasks[1].priority < tasks[2].priority
    /\ tasks[2].state = "IN_PROGRESS"
    /\ tasks[2].started_at = now

\* ---- C22: record_success on a source in state ACTIVE, DEGRADED or
\* QUARANTINED sets consecutive_failures to 0 and state to ACTIVE, clears
\* quarantine_until, adds exactly one to success_count and leaves
\* failure_count unchanged.
C22_SuccessResets ==
    (/\ log.op = "record_success"
     /\ log.pre.state \in {"ACTIVE", "DEGRADED", "QUARANTINED"})
        => /\ health[log.source].exists
           /\ health[log.source].consecutive_failures = 0
           /\ health[log.source].state = "ACTIVE"
           /\ health[log.source].quarantine_until = NoTime
           /\ health[log.source].success_count = log.pre.success_count + 1
           /\ health[log.source].failure_count = log.pre.failure_count

\* C22, the case: the success was recorded for a source quarantined by three
\* failures.
C22_QuarantinedSucceeds ==
    /\ log.op = "record_success"
    /\ log.pre.state = "QUARANTINED"
    /\ log.pre.consecutive_failures >= 3
    /\ log.pre.quarantine_until # NoTime
    /\ health[log.source].state = "ACTIVE"

\* The quarantine of the row has run out at time t.
Expired(row, t) == row.quarantine_until # NoTime /\ row.quarantine_until < t

\* ---- C23: is_quarantined returns false and changes nothing when the source
\* is unknown or not QUARANTINED; when QUARANTINED and quarantine_until has
\* passed it sets state DEGRADED, clears quarantine_until and returns false;
\* when QUARANTINED and not yet expired it returns true and changes nothing.
C23_IsQuarantinedContract ==
    (log.op = "is_quarantined")
        => /\ log.stage = "returned"
           /\ (~log.pre.exists \/ log.pre.state # "QUARANTINED")
                  => /\ ~log.result
                     /\ health[log.source] = log.pre
           /\ (/\ log.pre.exists
               /\ log.pre.state = "QUARANTINED"
               /\ Expired(log.pre, now))
                  => /\ ~log.result
                     /\ health[log.source].state = "DEGRADED"
                     /\ health[log.source].quarantine_until = NoTime
           /\ (/\ log.pre.exists
               /\ log.pre.state = "QUARANTINED"
               /\ ~Expired(log.pre, now))
                  => /\ log.result
                     /\ health[log.source] = log.pre

\* ---- record_success, record_failure and is_quarantined, no manual override
NextStrikes ==
    \/ \E e \in ErrorTexts : RecordFailure("s1", e)
    \/ RecordSuccess("s1")
    \/ IsQuarantined("s1")
    \/ Tick

SpecStrikes == InitQueue /\ [][NextStrikes]_vars

PromotedThenLearn ==
    /\ OracleAsked
    /\ log.prod_before[log.source] # NoFile
    /\ ReachesLearn(log.ext)
    /\ validate_staged(log.ext.patch)

\* ---- C25: if the Learn step fails after a successful promote, heal still
\* returns True, the promoted production artifact and the success
\* FixHistoryRecord remain and no Lesson is added; a heal that did not promote
\* never adds a Lesson.
C25_LearnIsBestEffort ==
    /\ (PromotedThenLearn /\ ~log.ext.learn_ok)
          => /\ log.result
             /\ ret = "True"
             /\ tasks[log.task].state = "COMPLETED"
             /\ prod[log.source] = log.ext.patch
             /\ Len(fix_history) = log.history_before + 1
             /\ LastFixRecord.success = TRUE
             /\ lessons = log.lessons_before
    /\ (FixDispatched /\ log.stage # "done")
          => lessons = log.lessons_before

\* C25, the case: the patch was promoted over existing code and the Oracle's
\* lesson could not be used.
C25_LearnFailed ==
    /\ PromotedThenLearn
    /\ ~log.ext.learn_ok
    /\ log.prod_before[log.source] = OriginalCode
    /\ prod[log.source] = "patched"
    /\ log.stage = "done"

OPENAI_MAX_ATTEMPTS == 5

\* What one httpx.post of _openai_chat can raise: the three exception types
\* the decorator names, and others (raise_for_status on an HTTP error, a write
\* timeout, a response without "choices").
TransientErrors == {"ConnectError", "ReadTimeout", "ConnectTimeout"}
OtherErrors == {"HTTPStatusError", "WriteTimeout", "KeyError"}

\* (mutation) retry on every exception, as _ollama_chat does.
retry_if_any_exception(e) == TRUE

\* retry=retry_if_exception_type((ConnectError, ReadTimeout, ConnectTimeout))
retry_if_exception_type(e) == e \in TransientErrors

\* stop=stop_after_attempt(5): true once the attempt number reaches 5.
stop_after_attempt(n) == n >= OPENAI_MAX_ATTEMPTS

unchangedByLlm ==
    UNCHANGED <<tasks, now, health, prod, staging, backup, fix_history,
                lessons, wpc, wrec, returned, pc, cur, ret, passed, swept,
                running, stop_requested>>

\* _openai_chat is called.
OpenaiChat ==
    /\ llm.status = "idle"
    /\ llm' = [NoCall EXCEPT !.status = "calling"]
    /\ log' = [NoLog EXCEPT !.op = "openai_chat"]
    /\ unchangedByLlm

\* One attempt: the body of _openai_chat runs httpx.post and either returns
\* the content or raises e; the decorator re-raises (reraise=True) when e is
\* not of a retried type or the attempts are used up, and otherwise waits and
\* runs the body again.
Attempt(e) ==
    /\ llm.status = "calling"
    /\ llm' = IF e = "ok"
              THEN [llm EXCEPT !.status = "returned", !.calls = @ + 1]
              ELSE [status |-> IF /\ retry_if_exception_type(e)
                                  /\ ~stop_after_attempt(llm.calls + 1)
                               THEN "calling" ELSE "raised",
                    calls  |-> llm.calls + 1,
                    errors |-> Append(llm.errors, e)]
    /\ log' = [NoLog EXCEPT !.op = "attempt", !.text = e]
    /\ unchangedByLlm

\* The caller has its answer or its exception; the client is idle again.
CallEnds ==
    /\ llm.status \in {"returned", "raised"}
    /\ llm' = NoCall
    /\ log' = [NoLog EXCEPT !.op = "call_ends"]
    /\ unchangedByLlm

NextLlm ==
    \/ OpenaiChat
    \/ \E e \in {"ok"} \cup TransientErrors \cup OtherErrors : Attempt(e)
    \/ CallEnds

SpecLlm == InitQueue /\ [][NextLlm]_vars

\* ---- C27: _openai_chat retries only on transient connection/timeout errors
\* and makes at most 5 attempts: k transient failures (k < 5) followed by a
\* success return it after exactly k + 1 attempts, and the 5th consecutive
\* transient failure ends the call with an error.
C27_BoundedRetry ==
    /\ llm.calls <= OPENAI_MAX_ATTEMPTS
    /\ \A i \in 1..Len(llm.errors) :
          llm.errors[i] \notin TransientErrors
              => i = Len(llm.errors) /\ llm.status = "raised"
    /\ (llm.status = "calling")
          => /\ llm.calls = Len(llm.errors)
             /\ llm.calls < OPENAI_MAX_ATTEMPTS
    /\ (llm.status = "returned")
          => /\ llm.calls = Len(llm.errors) + 1
             /\ Len(llm.errors) < OPENAI_MAX_ATTEMPTS
    /\ (/\ Len(llm.errors) = OPENAI_MAX_ATTEMPTS
        /\ \A i \in 1..Len(llm.errors) : llm.errors[i] \in TransientErrors)
          => /\ llm.status = "raised"
             /\ llm.calls = OPENAI_MAX_ATTEMPTS

\* C27, the case: a connection error and a read timeout, then the third
\* attempt returned (the run of test_openai_retry_success).
C27_ThirdAttemptReturns ==
    /\ llm.status = "returned"
    /\ llm.errors = <<"ConnectError", "ReadTimeout">>
    /\ llm.calls = 3

\* A heal call for a FIX_SOURCE task passed the circuit breaker; it ended in
\* any way, or the process was killed in its pipeline.
HealEntered ==
    /\ log.op \in {"process_task", "heal_crash"}
    /\ log.task # NoTask
    /\ tasks[log.task].task_type = "FIX_SOURCE"
    /\ log.entered

\* ---- C28: every heal invocation that passes can_attempt_fix adds exactly
\* one to fix_attempts_today before any pipeline stage runs: the slot is
\* consumed whatever the outcome (abort at any stage, exception, or a crash in
\* the pipeline).
C28_SlotConsumed ==
    HealEntered
        => /\ health[log.source].fix_attempts_today =
                 reset_daily_counters_if_needed(log.pre, now).fix_attempts_today + 1
           /\ health[log.source].fix_attempts_today <= MAX_FIX_ATTEMPTS_PER_DAY
           /\ Day(health[log.source].fix_attempts_reset_at) = Day(now)
           /\ log.stage \in {"exception", "diagnose", "patch", "stage",
                             "validate", "promote", "done", "crash"}

\* C28, the case: the process was killed in the pipeline of the second attempt
\* of the day; the task is still IN_PROGRESS and the slot is taken.
C28_CrashKeepsSlot ==
    /\ HealEntered
    /\ log.op = "heal_crash"
    /\ log.pre.fix_attempts_today = 1
    /\ health[log.source].fix_attempts_today = 2
    /\ tasks[log.task].state = "IN_PROGRESS"

\* ---- C29: an Oracle diagnosis that is valid JSON but lacks the required
\* fields (no confidence field) is a diagnosis failure: heal aborts without
\* generating, staging or promoting a patch.
C29_MissingFieldsAbort ==
    (/\ OracleAsked
     /\ log.ext.oracle = "noconf")
        => /\ ~log.result
           /\ log.stage = "diagnose"
           /\ FilesUntouched

\* ---- C30: after mark_dead(source), record_failure never moves the state of
\* the source away from DEAD, whatever its consecutive_failures: a DEAD source
\* does not re-enter DEGRADED or QUARANTINED and is not selected by the health
\* sweep.
C30_FailureKeepsDead ==
    (/\ log.op = "record_failure"
     /\ log.pre.exists
     /\ log.pre.state = "DEAD")
        => /\ health[log.source].state = "DEAD"
           /\ log.source \notin get_degraded_sources(health)

\* The row is in quarantine at time t and the quarantine has not run out.
InQuarantine(row, t) ==
    /\ row.exists
    /\ row.state = "QUARANTINED"
    /\ row.quarantine_until # NoTime
    /\ row.quarantine_until > t

\* ---- C31: while a source is in unexpired quarantine no automated repair
\* (heal through a dispatched FIX_SOURCE task) and no refresh attempt is
\* executed for it, also for tasks enqueued before the quarantine began.
C31_QuarantineSuspends ==
    (/\ log.op \in {"process_task", "refresh_stored"}
     /\ log.task # NoTask
     /\ InQuarantine(log.pre, now))
        => /\ tasks[log.task].task_type = "FIX_SOURCE" => ~log.entered
           /\ tasks[log.task].task_type # "REFRESH_SOURCE"

\* ---- the health sweep alone, over sources in every state
SweepAlone ==
    /\ SweepCall
    /\ UNCHANGED <<now, prod, staging, backup, fix_history, lessons,
                   pc, cur, ret, passed, running, stop_requested>>
    /\ unchangedByLoop

NextSweep ==
    \/ \E s \in Sources : RecordFailure(s, "boom")
    \/ RecordFixAttempt("s1")
    \/ MarkDead("s2")
    \/ SweepAlone
    \/ Tick

SpecSweep == InitQueue /\ [][NextSweep]_vars

\* The sources the sweep is to enqueue a repair for: DEGRADED, or QUARANTINED
\* with the quarantine run out, and with fix budget left today.
NeedsFix(h, t) ==
    {s \in Sources :
        /\ h[s].exists
        /\ \/ h[s].state = "DEGRADED"
           \/ h[s].state = "QUARANTINED" /\ Expired(h[s], t)
        /\ can_attempt_fix(h, s, t)}

\* ---- C32: check_health_and_queue_fixes enqueues FIX_SOURCE tasks exactly
\* for the sources that are DEGRADED, or QUARANTINED with an expired
\* quarantine, and for which can_attempt_fix is true, never for ACTIVE, DEAD,
\* still-quarantined or budget-exhausted sources, and returns the number of
\* tasks it enqueued.
C32_SweepEnqueuesExactly ==
    [][(log'.op = "sweep") =>
          LET new == (Len(tasks) + 1)..Len(tasks')
          IN  /\ log'.stage = "returned"
              /\ \A i \in new : /\ tasks'[i].task_type = "FIX_SOURCE"
                                /\ tasks'[i].state = "PENDING"
              /\ {tasks'[i].target : i \in new} = NeedsFix(health, now)
              /\ Len(tasks') - Len(tasks) = Cardinality(NeedsFix(health, now))
              /\ log'.count = Len(tasks') - Len(tasks)]_vars

\* ---- C34: a failure of a sub-fetch while the diagnosis context is collected
\* (health lookup, reading the current code, content-hash lookup) never aborts
\* heal at the collect stage: the workflow goes on to the diagnosis.
C34_CollectNeverAborts ==
    (/\ FixDispatched
     /\ log.entered
     /\ log.ext.collect = "raise")
        => log.stage # "exception"

\* ---- C35: a dispatched ADD_SOURCE task whose Analyzer and Generator both
\* succeed ends COMPLETED, records a success for the new source and leaves
\* exactly one new PENDING REFRESH_SOURCE task for it; if one of them fails
\* the task ends FAILED, no health record is created and no refresh task is
\* enqueued.
C35_AddSourceOutcome ==
    (/\ log.op = "process_task"
     /\ log.task # NoTask
     /\ tasks[log.task].task_type = "ADD_SOURCE")
        => LET s == log.source
               refreshes == {i \in (log.task + 1)..Len(tasks) :
                                /\ tasks[i].task_type = "REFRESH_SOURCE"
                                /\ tasks[i].target = s
                                /\ tasks[i].state = "PENDING"}
           IN  IF log.input = "analysable"
               THEN /\ tasks[log.task].state = "COMPLETED"
                    /\ health[s].exists
                    /\ health[s].success_count = log.pre.success_count + 1
                    /\ Cardinality(refreshes) = 1
               ELSE /\ tasks[log.task].state = "FAILED"
                    /\ health[s] = log.pre
                    /\ refreshes = {}

\* The dispatched heal reached promote_to_production with a production file
\* in place.
PromoteCalled ==
    /\ FixDispatched
    /\ log.entered
    /\ log.stage \in {"promote", "done"}
    /\ log.prod_before[log.source] # NoFile

\* ---- C33: promote_to_production with an existing production artifact copies
\* it to the backup and then replaces production with the staged candidate: on
\* success production is the staged candidate, the backup is the previous
\* production content and the staging file is gone; when the replacement fails
\* after the backup was taken, promote returns False and the backup remains.
C33_PromoteBacksUp ==
    PromoteCalled =>
        LET s == log.source
            candidate == generate_patch(log.prod_before[s], log.ext)
        IN  /\ (log.stage = "done")
                  => /\ log.ext.promote = "ok"
                     /\ prod[s] = candidate
                     /\ backup[s] = log.prod_before[s]
                     /\ staging[s] = NoFile
            /\ (log.ext.promote = "move_fails")
                  => /\ log.stage = "promote"
                     /\ ~log.result
                     /\ backup[s] = log.prod_before[s]
                     /\ prod[s] = log.prod_before[s]

\* C33, the case: the move failed after the original code had been copied to
\* the backup, which until then held nothing.
C33_MoveFailedBackupKept ==
    /\ PromoteCalled
    /\ log.ext.promote = "move_fails"
    /\ log.stage = "promote"
    /\ log.prod_before[log.source] = OriginalCode
    /\ backup[log.source] = OriginalCode
    /\ staging[log.source] = "patched"
    /\ Len(fix_history) = 1

\* ---- two processes that run the loop on one queue (the UI's orchestrator
\* thread and `python -m src run`): get_next_task's SELECT and its UPDATE are
\* separate statements, and a claimed task is handled, then marked done.
StampEnqueue ==
    /\ Len(tasks) < MaxLoopTasks
    /\ \/ Enqueue("REFRESH_SOURCE", "s1", REFRESH_PRIORITY)
       \/ Enqueue("FIX_SOURCE", "s1", FIX_PRIORITY)

StampClaimSelect(w) ==
    /\ Len(returned[w]) < MaxLoopTasks
    /\ ClaimSelect(w)

\* get_next_task, the UPDATE and commit; process_task then runs the handler.
StampClaimUpdate(w) ==
    /\ wpc[w] = "selected"
    /\ tasks' = MarkInProgress(tasks, wrec[w], now)
    /\ returned' = [returned EXCEPT ![w] = Append(@, wrec[w])]
    /\ wpc' = [wpc EXCEPT ![w] = "handling"]
    /\ log' = [NoLog EXCEPT !.op = "update", !.source = w, !.task = wrec[w]]
    /\ UNCHANGED <<now, health, prod, staging, backup, fix_history, lessons,
                   wrec, pc, cur, ret, passed, swept, running, stop_requested,
                   llm>>

\* The handler of the claimed task ends: update_state(COMPLETED) or
\* update_state(FAILED, text).
StampFinish(w) ==
    /\ wpc[w] = "handling"
    /\ \E ok \in BOOLEAN :
          tasks' = IF ok
                   THEN update_state(tasks, wrec[w], "COMPLETED", NoText, now)
                   ELSE update_state(tasks, wrec[w], "FAILED", "boom", now)
    /\ wpc' = [wpc EXCEPT ![w] = "idle"]
    /\ log' = [NoLog EXCEPT !.op = "finish", !.source = w, !.task = wrec[w]]
    /\ UNCHANGED <<now, health, prod, staging, backup, fix_history, lessons,
                   wrec, returned, pc, cur, ret, passed, swept, running,
                   stop_requested, llm>>

NextStamps ==
    \/ StampEnqueue
    \/ \E w \in Workers : StampClaimSelect(w)
    \/ \E w \in Workers : StampClaimUpdate(w)
    \/ \E w \in Workers : StampFinish(w)
    \/ Tick

SpecStamps == InitQueue /\ [][NextStamps]_vars

\* Task i was moved from PENDING to IN_PROGRESS by some get_next_task call.
Claimed(i) ==
    \E w \in Workers : \E k \in 1..Len(returned[w]) : returned[w][k] = i

\* ---- C36: in every reachable state a task's completed_at is set exactly
\* when its state is COMPLETED or FAILED, and its started_at is set only if
\* the task has been moved from PENDING to IN_PROGRESS at least once.
C36_TimestampsFollowState ==
    \A i \in 1..Len(tasks) :
        /\ (tasks[i].completed_at # NoTime)
              <=> (tasks[i].state \in {"COMPLETED", "FAILED"})
        /\ (tasks[i].started_at # NoTime) => Claimed(i)

\* ---- C37: heal never changes a source's health state, its
\* consecutive_failures, success_count, failure_count or quarantine_until: of
\* the health row it writes only fix_attempts_today and the day the counter
\* was last reset.
C37_HealKeepsHealth ==
    (/\ log.op \in {"process_task", "heal_crash"}
     /\ log.task # NoTask
     /\ tasks[log.task].task_type = "FIX_SOURCE"
     /\ log.pre.exists)
        => LET row == health[log.source]
           IN  /\ row.state = log.pre.state
               /\ row.consecutive_failures = log.pre.consecutive_failures
               /\ row.success_count = log.pre.success_count
               /\ row.failure_count = log.pre.failure_count
               /\ row.quarantine_until = log.pre.quarantine_until
               /\ row.last_error = log.pre.last_error

\* C37, the case: heal promoted a patch for a DEGRADED source, which is still
\* DEGRADED with its two failures; one more fix attempt is counted.
C37_RepairedStillDegraded ==
    /\ FixDispatched
    /\ log.stage = "done"
    /\ log.pre.state = "DEGRADED"
    /\ health[log.source].state = "DEGRADED"
    /\ health[log.source].consecutive_failures = 2
    /\ health[log.source].fix_attempts_today = log.pre.fix_attempts_today + 1
    /\ prod[log.source] = "patched"

\* ---- DoctorAgent.heal called by two processes for one source (the run
\* loop's FIX_SOURCE handler and `fix --now`): can_attempt_fix and
\* record_fix_attempt are two calls, each with a session of its own.
HealCheck(w) ==
    /\ wpc[w] = "idle"
    /\ Len(returned[w]) < MaxClaims
    /\ health' = can_attempt_fix_store(health, "s1", now)
    /\ wpc' = [wpc EXCEPT ![w] = IF can_attempt_fix(health, "s1", now)
                                 THEN "checked" ELSE "idle"]
    /\ returned' = [returned EXCEPT ![w] = Append(@, 1)]
    /\ log' = [Log("can_attempt_fix", "s1") EXCEPT
                  !.result = can_attempt_fix(health, "s1", now)]
    /\ UNCHANGED <<tasks, now, prod, staging, backup, fix_history, lessons,
                   wrec, pc, cur, ret, passed, swept, running, stop_requested,
                   llm>>

HealRecord(w) ==
    /\ wpc[w] = "checked"
    /\ health' = record_fix_attempt(health, "s1", now)
    /\ passed' = [passed EXCEPT !["s1"][Day(now)] = @ + 1]
    /\ wpc' = [wpc EXCEPT ![w] = "pipeline"]
    /\ log' = [Log("record_fix_attempt", "s1") EXCEPT !.entered = TRUE]
    /\ UNCHANGED <<tasks, now, prod, staging, backup, fix_history, lessons,
                   wrec, returned, pc, cur, ret, swept, running,
                   stop_requested, llm>>

\* The pipeline of the call ends, with a failure here: no file is promoted.
HealReturn(w) ==
    /\ wpc[w] = "pipeline"
    /\ fix_history' = record_fix_history(fix_history, "s1", FALSE, NoText)
    /\ wpc' = [wpc EXCEPT ![w] = "idle"]
    /\ log' = [Log("heal", "s1") EXCEPT !.entered = TRUE, !.stage = "diagnose"]
    /\ UNCHANGED <<tasks, now, health, prod, staging, backup, lessons,
                   wrec, returned, pc, cur, ret, passed, swept, running,
                   stop_requested, llm>>

NextRace ==
    \/ \E w \in Workers : HealCheck(w)
    \/ \E w \in Workers : HealRecord(w)
    \/ \E w \in Workers : HealReturn(w)
    \/ Tick

SpecRace == InitQueue /\ [][NextRace]_vars

\* ---- C38: when two heal invocations for the same source interleave, the
\* circuit-breaker check and the increment behave as one atomic step:
\* fix_attempts_today never exceeds 3 and at most 3 pipelines are entered for
\* the source on one day.
C38_BreakerIsAtomic ==
    /\ health["s1"].fix_attempts_today <= MAX_FIX_ATTEMPTS_PER_DAY
    /\ \A d \in Days : passed["s1"][d] <= MAX_FIX_ATTEMPTS_PER_DAY

\* ---- C39: startup() of a second Orchestrator on the same store, run while
\* the first is in the middle of a task, does not return that task to
\* PENDING: the task a handler has been given and has not yet finished stays
\* IN_PROGRESS, so it is handed to a handler once unless the process crashed.
C39_InFlightStaysClaimed ==
    (pc = "dispatch" /\ cur # NoTask) => tasks[cur].state = "IN_PROGRESS"

\* ---- one run loop left alone: the tasks are enqueued before run() is
\* called, the clock stays within one day, no store call fails, nobody calls
\* stop() and the process is not killed. Scrapers may report failures of s1.
LiveEnqueue ==
    /\ pc = "init"
    /\ Len(tasks) < MaxLoopTasks
    /\ \/ Enqueue("ADD_SOURCE", "s1", DEFAULT_PRIORITY)
       \/ Enqueue("FIX_SOURCE", "s1", FIX_PRIORITY)
       \/ Enqueue("REFRESH_SOURCE", "s1", REFRESH_PRIORITY)

\* Orchestrator.run: check_health_and_queue_fixes(), however long the queue.
LiveSweep ==
    /\ pc = "sweep"
    /\ \E order \in Orders(get_degraded_sources(health)) :
          LET st == check_health_and_queue_fixes(health, tasks, order, now)
          IN  /\ health' = st.health
              /\ tasks' = st.tasks
              /\ swept' = swept \cup st.queued
              /\ pc' = IF st.raised THEN "raised" ELSE "claim"
              /\ log' = [NoLog EXCEPT
                            !.op = "sweep", !.task = Len(tasks),
                            !.count = Cardinality(st.queued),
                            !.stage = IF st.raised THEN "raised" ELSE "returned",
                            !.text = IF st.raised THEN NaiveAwareError ELSE NoText]
    /\ UNCHANGED <<now, prod, staging, backup, fix_history, lessons,
                   cur, ret, passed, running, stop_requested>>
    /\ unchangedByLoop

LiveFixSource ==
    HandleFixSourceIn({Nominal, [Nominal EXCEPT !.oracle = "raise"]})

\* The steps of run().
LiveLoop ==
    \/ Startup
    \/ SetRunning
    \/ LoopCheck
    \/ LiveSweep
    \/ ProcessQueue
    \/ HandleAddSource
    \/ LiveFixSource
    \/ HandleRefreshSource
    \/ RefreshRecordSuccess
    \/ Return

NextLive ==
    \/ LiveEnqueue
    \/ LoopFailure("s1")
    \/ LiveLoop

\* run() is a sequential program that is being executed: whenever it has a
\* next step, it takes it.
SpecLive == InitBudget /\ [][NextLive]_vars /\ WF_vars(LiveLoop)

\* The queue never holds more than the tasks enqueued at the start and one
\* FIX_SOURCE per fix attempt of the day.
MaxLiveTasks == MaxLoopTasks + MAX_FIX_ATTEMPTS_PER_DAY

\* ---- C40: with a single running loop, terminating handlers, no further
\* external enqueues and no calendar-day change, every PENDING task is
\* eventually claimed and reaches COMPLETED or FAILED: priority ordering and
\* the FIX_SOURCE tasks added by the health sweeps do not starve a task
\* forever.
C40_EveryTaskEnds ==
    \A i \in 1..MaxLiveTasks :
        (i <= Len(tasks) /\ tasks[i].state = "PENDING")
            ~> (i <= Len(tasks) /\ tasks[i].state \in {"COMPLETED", "FAILED"})

====
